---- MODULE Spec2Model ----
(***************************************************************************)
(* A model of pygments.formatters.rtf.RtfFormatter.                        *)
(*                                                                         *)
(* Text is a sequence of Unicode code points (naturals).  The output file  *)
(* is the sequence of the strings handed to outfile.write, each tagged     *)
(* with the write statement that produced it; the document is the          *)
(* concatenation of their texts (Document).                                *)
(***************************************************************************)
EXTENDS Integers, Sequences, FiniteSets, TLC

\* ------------------------------------------------------------------------
\* Bounds of the model
\* ------------------------------------------------------------------------
MaxTokens == 3

MaxTextLen == 3

MaxStyles == 3

\* ------------------------------------------------------------------------
\* Characters and string literals of the source
\* ------------------------------------------------------------------------
Backslash == 92

LBrace == 123

RBrace == 125

Newline == 10

Space == 32

\* '{\\rtf1\\ansi\\uc0\\deff0{\\fonttbl{\\f0\\fmodern\\fprq1\\fcharset0'
HeaderOpen ==
    <<123, 92, 114, 116, 102, 49, 92, 97, 110, 115, 105, 92, 117, 99, 48,
      92, 100, 101, 102, 102, 48, 123, 92, 102, 111, 110, 116, 116, 98, 108,
      123, 92, 102, 48, 92, 102, 109, 111, 100, 101, 114, 110, 92, 102, 112,
      114, 113, 49, 92, 102, 99, 104, 97, 114, 115, 101, 116, 48>>

\* ';}}{\\colortbl;'
HeaderClose ==
    <<59, 125, 125, 123, 92, 99, 111, 108, 111, 114, 116, 98, 108, 59>>

\* '\\red'
RedWord ==
    <<92, 114, 101, 100>>

\* '\\green'
GreenWord ==
    <<92, 103, 114, 101, 101, 110>>

\* '\\blue'
BlueWord ==
    <<92, 98, 108, 117, 101>>

\* '}\\f0 '
TableClose ==
    <<125, 92, 102, 48, 32>>

\* '\\fs'
FsWord ==
    <<92, 102, 115>>

\* '{\\fs'
LinenoOpen ==
    <<123, 92, 102, 115>>

\* ' \\cf1 '
LinenoColor ==
    <<32, 92, 99, 102, 49, 32>>

\* '  }'
LinenoClose ==
    <<32, 32, 125>>

\* '\\cb'
CbWord ==
    <<92, 99, 98>>

\* '\\cf'
CfWord ==
    <<92, 99, 102>>

\* '\\b'
BoldWord ==
    <<92, 98>>

\* '\\i'
ItalicWord ==
    <<92, 105>>

\* '\\ul'
UlWord ==
    <<92, 117, 108>>

\* '\\chbrdr\\chcfpat'
BorderWord ==
    <<92, 99, 104, 98, 114, 100, 114, 92, 99, 104, 99, 102, 112, 97, 116>>

\* '{\\u'
UOpen ==
    <<123, 92, 117>>

\* '\\par\n'
ParBreak ==
    <<92, 112, 97, 114, 10>>

\* ------------------------------------------------------------------------
\* Python built-ins used by the formatter
\* ------------------------------------------------------------------------
\* abs(n)
Abs(n) ==
    IF n < 0 THEN -n ELSE n

RECURSIVE Digits(_)
\* the decimal digits of a natural number, most significant first
Digits(n) ==
    IF n < 10 THEN <<48 + n>> ELSE Append(Digits(n \div 10), 48 + (n % 10))

\* str(n) and '%d' % n
Str(n) ==
    IF n < 0 THEN <<45>> \o Digits(-n) ELSE Digits(n)

\* s.rjust(width): pad with spaces on the left, never truncate
Rjust(s, width) ==
    IF Len(s) >= width THEN s
    ELSE [i \in 1..(width - Len(s)) |-> Space] \o s

RECURSIVE Replace(_, _, _)
\* s.replace(old, new) for a one-character old
Replace(s, old, new) ==
    IF s = <<>> THEN <<>>
    ELSE IF Head(s) = old THEN new \o Replace(Tail(s), old, new)
    ELSE <<Head(s)>> \o Replace(Tail(s), old, new)

RECURSIVE Split(_, _)
\* s.split(sep) for a one-character sep: always at least one piece
Split(s, sep) ==
    IF \A i \in 1..Len(s) : s[i] # sep THEN <<s>>
    ELSE LET k == CHOOSE i \in 1..Len(s) :
                      s[i] = sep /\ \A j \in 1..(i - 1) : s[j] # sep
         IN <<SubSeq(s, 1, k - 1)>> \o Split(SubSeq(s, k + 1, Len(s)), sep)

\* a faulty test: a newline anywhere in s
HasNewline(s) ==
    \E i \in 1..Len(s) : s[i] = Newline

\* s.endswith('\n')
EndsWithNewline(s) ==
    Len(s) > 0 /\ s[Len(s)] = Newline

RECURSIVE Join(_)
\* ''.join(parts)
Join(parts) ==
    IF parts = <<>> THEN <<>> ELSE Head(parts) \o Join(Tail(parts))

\* the value of one hexadecimal digit
HexDigit(c) ==
    IF c >= 48 /\ c <= 57 THEN c - 48
    ELSE IF c >= 65 /\ c <= 70 THEN c - 55
    ELSE c - 87

\* int(s, 16) for a two-digit s
Hex2(s) ==
    16 * HexDigit(s[1]) + HexDigit(s[2])

\* pygments.util.surrogatepair(c)
surrogatepair(c) ==
    <<55232 + (c \div 1024), 56320 + (c % 1024)>>

\* ------------------------------------------------------------------------
\* Token types and styles
\* ------------------------------------------------------------------------
DocType == "Token.Literal.String.Doc"

\* ttype.parent; the root has None
Parent(ttype) ==
    CASE ttype = "Token.Literal.String.Doc" -> "Token.Literal.String"
      [] ttype = "Token.Literal.String" -> "Token.Literal"
      [] ttype = "Token.Literal" -> "Token"
      [] ttype = "Token.Keyword.Custom" -> "Token.Keyword"
      [] ttype = "Token.Keyword" -> "Token"
      [] ttype = "Token.Text" -> "Token"
      [] OTHER -> "None"

\* the truth value of a token type: a token type is a tuple of names, and
\* the root is the empty tuple
Truthy(ttype) ==
    ttype # "None" /\ ttype # "Token"

NoColor == <<>>

\* 'FF0000'
Red ==
    <<70, 70, 48, 48, 48, 48>>

\* '0000ff'
Blue ==
    <<48, 48, 48, 48, 102, 102>>

\* '3A7f10'
Green ==
    <<51, 65, 55, 102, 49, 48>>

StyleDef(color, bgcolor, border, bold, italic, underline) ==
    [color |-> color, bgcolor |-> bgcolor, border |-> border,
     bold |-> bold, italic |-> italic, underline |-> underline]

\* style.styles_token(ttype)
styles_token(style, ttype) ==
    \E i \in 1..Len(style) : style[i][1] = ttype

\* style.style_for_token(ttype)
style_for_token(style, ttype) ==
    style[CHOOSE i \in 1..Len(style) : style[i][1] = ttype][2]

\* ------------------------------------------------------------------------
\* RtfFormatter._escape and RtfFormatter._escape_text
\* ------------------------------------------------------------------------
_escape(text) ==
    Replace(Replace(Replace(text, Backslash, <<Backslash, Backslash>>),
                    LBrace, <<Backslash, LBrace>>),
            RBrace, <<Backslash, RBrace>>)

\* a faulty loop body: everything below 2**8 passes as ASCII
EscapeCharLatin1(cn) ==
    IF cn < 2^8 THEN <<cn>>
    ELSE IF cn < 2^16 THEN UOpen \o Str(cn) \o <<RBrace>>
    ELSE UOpen \o Str(surrogatepair(cn)[1]) \o <<RBrace>>
         \o UOpen \o Str(surrogatepair(cn)[2]) \o <<RBrace>>

\* the body of the loop over the characters of the escaped text
EscapeChar(cn) ==
    IF cn < 2^7 THEN <<cn>>
    ELSE IF 2^7 <= cn /\ cn < 2^16 THEN UOpen \o Str(cn) \o <<RBrace>>
    ELSE UOpen \o Str(surrogatepair(cn)[1]) \o <<RBrace>>
         \o UOpen \o Str(surrogatepair(cn)[2]) \o <<RBrace>>

_escape_text(text) ==
    IF text = <<>> THEN <<>>
    ELSE LET escaped == _escape(text)
             buf == [i \in 1..Len(escaped) |-> EscapeChar(escaped[i])]
         IN Replace(Join(buf), Newline, ParBreak)

\* ------------------------------------------------------------------------
\* State
\* ------------------------------------------------------------------------
VARIABLES
    self,           \* the formatter's options and style, set by __init__
    tokensource,    \* the token stream handed to format_unencoded
    srcpos,         \* how many tokens the generator has yielded so far
    pc,             \* position of format_unencoded
    stylepos,       \* how many styles the colour loop has visited
    color_mapping,  \* colour -> index
    offset,         \* next colour index
    num_of_lines,   \* pre-pass line count
    tokens,         \* the materialized tokens of the pre-pass
    linenos_width,  \* width of the padded line number string
    lineno,         \* line counter of the render loop
    output_lineno,  \* a line number is owed before the next token
    pos,            \* how many tokens the render loop has handled
    outfile         \* the writes made so far, in order

vars ==
    <<self, tokensource, srcpos, pc, stylepos, color_mapping, offset,
      num_of_lines, tokens, linenos_width, lineno, output_lineno, pos,
      outfile>>

\* one outfile.write(text) made by the statement named kind
Write(kind, text) ==
    [kind |-> kind, text |-> text]

\* the document written so far
Document ==
    Join([i \in 1..Len(outfile) |-> outfile[i].text])

\* ------------------------------------------------------------------------
\* Construction and inputs
\* ------------------------------------------------------------------------
\* RtfFormatter.__init__
Construct(options, style) ==
    [fontface |-> options.fontface,
     fontsize |-> options.fontsize,
     linenos |-> options.linenos,
     lineno_fontsize |-> options.lineno_fontsize,
     linenostart |-> Abs(options.linenostart),
     linenostep |-> Abs(options.linenostep),
     style |-> style]

Options(fontface, fontsize, linenos, linenostart, linenostep) ==
    [fontface |-> fontface, fontsize |-> fontsize, linenos |-> linenos,
     lineno_fontsize |-> 18, linenostart |-> linenostart,
     linenostep |-> linenostep]

Plain == StyleDef(NoColor, NoColor, NoColor, FALSE, FALSE, FALSE)

DefaultStyle ==
    << <<"Token", Plain>>,
       <<"Token.Text", Plain>>,
       <<"Token.Keyword", StyleDef(Red, NoColor, NoColor, TRUE, FALSE, FALSE)>>,
       <<DocType, StyleDef(Blue, NoColor, NoColor, FALSE, TRUE, FALSE)>> >>

\* all sequences over S of length at most n
SeqUpTo(S, n) ==
    UNION {[1..k -> S] : k \in 0..n}

\* the state on entry to format_unencoded
Start(options, style, stream) ==
    /\ self = Construct(options, style)
    /\ tokensource = stream
    /\ srcpos = 0
    /\ pc = "header"
    /\ stylepos = 0
    /\ color_mapping = <<>>
    /\ offset = 0
    /\ num_of_lines = 0
    /\ tokens = <<>>
    /\ linenos_width = 0
    /\ lineno = 0
    /\ output_lineno = FALSE
    /\ pos = 0
    /\ outfile = <<>>

\* 'a', '\n', 'a\n', 'a\nb' as Text, Doc and unstyled Keyword.Custom tokens
LineTokens ==
    { <<"Token.Text", <<97>>>>,
      <<"Token.Text", <<10>>>>,
      <<"Token.Keyword.Custom", <<97, 10>>>>,
      <<"Token.Text", <<97, 10, 98>>>>,
      <<DocType, <<97>>>>,
      <<DocType, <<97, 10, 98>>>> }

LineOptions ==
    {Options(<<>>, 0, FALSE, 1, 1)}
    \cup {Options(<<>>, 0, TRUE, a, b) : a \in {1, -9}, b \in {1, 5}}

\* token streams of a few lines under every numbering option
Init ==
    \E options \in LineOptions, stream \in SeqUpTo(LineTokens, MaxTokens) :
        Start(options, DefaultStyle, stream)

\* ------------------------------------------------------------------------
\* RtfFormatter.format_unencoded
\* ------------------------------------------------------------------------
\* the rtf header with the font table, up to the opening of the colour table
WriteHeader ==
    /\ pc = "header"
    /\ outfile' = Append(outfile,
           Write("header",
                 HeaderOpen
                 \o (IF self.fontface # <<>>
                     THEN <<Space>> \o _escape(self.fontface)
                     ELSE <<>>)
                 \o HeaderClose))
    /\ color_mapping' = <<>>
    /\ offset' = 1
    /\ pc' = "colors"
    /\ UNCHANGED <<self, tokensource, srcpos, stylepos, num_of_lines, tokens,
                   linenos_width, lineno, output_lineno, pos>>

\* a faulty order: background before foreground
ColorFieldsBgFirst(style) ==
    <<style.bgcolor, style.color, style.border>>

\* the colours of one style, in the order the colour loop visits them
ColorFields(style) ==
    <<style.color, style.bgcolor, style.border>>

\* '\\red%d\\green%d\\blue%d;' % (...)
ColorEntry(color) ==
    RedWord \o Str(Hex2(SubSeq(color, 1, 2)))
    \o GreenWord \o Str(Hex2(SubSeq(color, 3, 4)))
    \o BlueWord \o Str(Hex2(SubSeq(color, 5, 6)))
    \o <<59>>

RECURSIVE ScanColors(_, _, _, _)
\* the inner loop over the colours of one style
ScanColors(colors, mapping, off, out) ==
    IF colors = <<>>
    THEN [mapping |-> mapping, offset |-> off, out |-> out]
    ELSE LET color == Head(colors) IN
         IF color # NoColor /\ color \notin DOMAIN mapping
         THEN ScanColors(Tail(colors), (color :> off) @@ mapping, off + 1,
                         Append(out, Write("color", ColorEntry(color))))
         ELSE ScanColors(Tail(colors), mapping, off, out)

\* one iteration of the loop over the styles
ConvertColors ==
    /\ pc = "colors"
    /\ stylepos < Len(self.style)
    /\ LET style == self.style[stylepos + 1][2]
           r == ScanColors(ColorFields(style), color_mapping, offset, outfile)
       IN /\ color_mapping' = r.mapping
          /\ offset' = r.offset
          /\ outfile' = r.out
    /\ stylepos' = stylepos + 1
    /\ UNCHANGED <<self, tokensource, srcpos, pc, num_of_lines, tokens,
                   linenos_width, lineno, output_lineno, pos>>

\* the end of the colour table, the font size and the start of the line
\* numbering setup
CloseColorTable ==
    /\ pc = "colors"
    /\ stylepos = Len(self.style)
    /\ outfile' = Append(outfile, Write("endtable", TableClose))
                  \o (IF self.fontsize # 0
                      THEN <<Write("fontsize", FsWord \o Str(self.fontsize))>>
                      ELSE <<>>)
    /\ IF self.linenos
       THEN /\ num_of_lines' = 0
            /\ tokens' = <<>>
            /\ pc' = "prepass"
       ELSE /\ UNCHANGED <<num_of_lines, tokens>>
            /\ pc' = "render"
    /\ UNCHANGED <<self, tokensource, srcpos, stylepos, color_mapping, offset,
                   linenos_width, lineno, output_lineno, pos>>

\* the tokens the pre-pass appends for one token of the stream
Materialize(ttype, value) ==
    IF ttype = DocType
    THEN LET lines == Split(value, Newline)
         IN [i \in 1..Len(lines) |-> <<ttype, lines[i] \o <<Newline>>>>]
    ELSE <<<<ttype, value>>>>

\* the lines the pre-pass counts for one token of the stream
CountLines(ttype, value) ==
    IF ttype = DocType THEN Len(Split(value, Newline))
    ELSE IF value = <<Newline>> THEN 1
    ELSE 0

\* one iteration of the first pass over the tokens
PrePassToken ==
    /\ pc = "prepass"
    /\ srcpos < Len(tokensource)
    /\ LET ttype == tokensource[srcpos + 1][1]
           value == tokensource[srcpos + 1][2]
       IN /\ num_of_lines' = num_of_lines + CountLines(ttype, value)
          /\ tokens' = tokens \o Materialize(ttype, value)
    /\ srcpos' = srcpos + 1
    /\ UNCHANGED <<self, tokensource, pc, stylepos, color_mapping, offset,
                   linenos_width, lineno, output_lineno, pos, outfile>>

\* the end of the first pass: width and line number book keeping
PrePassDone ==
    /\ pc = "prepass"
    /\ srcpos = Len(tokensource)
    /\ linenos_width' = Len(Str(num_of_lines))
    /\ lineno' = self.linenostart
    /\ output_lineno' = TRUE
    /\ pc' = "render"
    /\ UNCHANGED <<self, tokensource, srcpos, stylepos, color_mapping, offset,
                   num_of_lines, tokens, pos, outfile>>

RECURSIVE ResolveType(_, _)
\* while not self.style.styles_token(ttype) and ttype.parent
ResolveType(style, ttype) ==
    IF ~styles_token(style, ttype) /\ Truthy(Parent(ttype))
    THEN ResolveType(style, Parent(ttype))
    ELSE ttype

\* whether the line number itself, not padding, is printed
PrintsNumber(n, step) ==
    (n - step) % step = 0

\* the string in the line number slot
LinenoStr(n, step, width) ==
    IF PrintsNumber(n, step) THEN Rjust(Str(n), width) ELSE Rjust(<<>>, width)

\* '{\\fs%d \\cf1 %s  }' % (self.lineno_fontsize, lineno_str)
LinenoSlot(fontsize, lineno_str) ==
    LinenoOpen \o Str(fontsize) \o LinenoColor \o lineno_str \o LinenoClose

\* the control words of a style, joined
StyleStart(style, mapping) ==
    (IF style.bgcolor # NoColor
     THEN CbWord \o Str(mapping[style.bgcolor]) ELSE <<>>)
    \o (IF style.color # NoColor
        THEN CfWord \o Str(mapping[style.color]) ELSE <<>>)
    \o (IF style.bold THEN BoldWord ELSE <<>>)
    \o (IF style.italic THEN ItalicWord ELSE <<>>)
    \o (IF style.underline THEN UlWord ELSE <<>>)
    \o (IF style.border # NoColor
        THEN BorderWord \o Str(mapping[style.border]) ELSE <<>>)

\* the sequence the highlight loop iterates and how far it has come: the
\* materialized list when numbering is on, else the stream itself
HasNextToken ==
    IF self.linenos THEN pos < Len(tokens) ELSE srcpos < Len(tokensource)

NextToken ==
    IF self.linenos THEN tokens[pos + 1] ELSE tokensource[srcpos + 1]

\* one iteration of the highlight loop
RenderToken ==
    /\ pc = "render"
    /\ HasNextToken
    /\ LET value == NextToken[2]
           style == style_for_token(self.style,
                                    ResolveType(self.style, NextToken[1]))
           slot == IF self.linenos /\ output_lineno
                   THEN <<Write("lineno",
                                LinenoSlot(self.lineno_fontsize,
                                           LinenoStr(lineno, self.linenostep,
                                                     linenos_width)))>>
                   ELSE <<>>
           start == StyleStart(style, color_mapping)
       IN /\ IF self.linenos
             THEN IF EndsWithNewline(value)
                  THEN /\ output_lineno' = TRUE
                       /\ lineno' = lineno + 1
                  ELSE /\ output_lineno' = FALSE
                       /\ lineno' = lineno
             ELSE UNCHANGED <<output_lineno, lineno>>
          /\ outfile' = outfile \o slot
                 \o (IF start # <<>>
                     THEN <<Write("start", <<LBrace>> \o start \o <<Space>>)>>
                     ELSE <<>>)
                 \o <<Write("text", _escape_text(value))>>
                 \o (IF start # <<>>
                     THEN <<Write("end", <<RBrace>>)>>
                     ELSE <<>>)
    /\ pos' = pos + 1
    /\ srcpos' = IF self.linenos THEN srcpos ELSE srcpos + 1
    /\ UNCHANGED <<self, tokensource, pc, stylepos, color_mapping, offset,
                   num_of_lines, tokens, linenos_width>>

\* the closing brace of the document
CloseDocument ==
    /\ pc = "render"
    /\ ~HasNextToken
    /\ outfile' = Append(outfile, Write("close", <<RBrace>>))
    /\ pc' = "done"
    /\ UNCHANGED <<self, tokensource, srcpos, stylepos, color_mapping, offset,
                   num_of_lines, tokens, linenos_width, lineno, output_lineno,
                   pos>>

Next ==
    \/ WriteHeader
    \/ ConvertColors
    \/ CloseColorTable
    \/ PrePassToken
    \/ PrePassDone
    \/ RenderToken
    \/ CloseDocument

Spec == Init /\ [][Next]_vars

\* ------------------------------------------------------------------------
\* Further families of inputs
\* ------------------------------------------------------------------------
StyleTypes ==
    <<"Token", "Token.Keyword", "Token.Text", DocType, "Token.Literal.String">>

StyleRecords ==
    { Plain,
      StyleDef(Red, NoColor, NoColor, FALSE, FALSE, FALSE),
      StyleDef(Red, Blue, NoColor, TRUE, FALSE, FALSE),
      StyleDef(Blue, Red, Green, FALSE, FALSE, FALSE),
      StyleDef(NoColor, Blue, Blue, FALSE, FALSE, TRUE),
      StyleDef(NoColor, NoColor, Red, FALSE, TRUE, FALSE) }

\* the style enumerations of the first n token types
Styles(n) ==
    { [i \in 1..n |-> <<StyleTypes[i], f[i]>>] : f \in [1..n -> StyleRecords] }

\* tokens whose type every such enumeration resolves
ColorTokens ==
    { <<"Token", <<97>>>>,
      <<"Token.Keyword", <<97>>>>,
      <<"Token.Keyword.Custom", <<97>>>> }

ColorOptions ==
    { Options(<<>>, 0, FALSE, 1, 1), Options(<<>>, 24, TRUE, 1, 1) }

\* every style enumeration of up to MaxStyles token types
InitColors ==
    \E options \in ColorOptions, n \in 2..MaxStyles :
        \E style \in Styles(n), stream \in SeqUpTo(ColorTokens, 1) :
            Start(options, style, stream)

SpecColors == InitColors /\ [][Next]_vars

\* '\n', 'A', '\\', '{', '}', DEL, U+0080, U+FFFF, U+10000, U+1F600, U+10FFFF
EscapeChars ==
    {10, 65, 92, 123, 125, 127, 128, 65535, 65536, 128512, 1114111}

\* '', and 'F{' followed by U+00E9
EscapeOptions ==
    { Options(<<>>, 0, FALSE, 1, 1),
      Options(<<>>, 0, TRUE, 1, 1),
      Options(<<70, 123, 233>>, 24, FALSE, 1, 1) }

\* one token of every text of up to MaxTextLen characters
InitEscape ==
    \E options \in EscapeOptions, text \in SeqUpTo(EscapeChars, MaxTextLen) :
        Start(options, DefaultStyle, << <<"Token.Keyword", text>> >>)

SpecEscape == InitEscape /\ [][Next]_vars

\* ------------------------------------------------------------------------
\* Reading the output back
\* ------------------------------------------------------------------------
IsLineno(w) == w.kind = "lineno"

IsColor(w) == w.kind = "color"

IsText(w) == w.kind = "text"

\* the line number slots written so far, in order
Slots == SelectSeq(outfile, IsLineno)

\* the colour table entries written so far, in order
ColorEntries == SelectSeq(outfile, IsColor)

\* the escaped token texts written so far, in order
Texts == SelectSeq(outfile, IsText)

\* the number or padding inside a line number slot
SlotField(w) ==
    SubSeq(w.text,
           Len(LinenoOpen) + Len(Str(self.lineno_fontsize))
               + Len(LinenoColor) + 1,
           Len(w.text) - Len(LinenoClose))

HasDigit(s) == \E i \in 1..Len(s) : s[i] \in 48..57

IsBlank(s) == \A i \in 1..Len(s) : s[i] = 32

\* the tokens the highlight loop has handled so far
Rendered ==
    IF self.linenos THEN SubSeq(tokens, 1, pos)
    ELSE SubSeq(tokensource, 1, pos)

\* the text ends with a newline
EndsNL(v) == v # <<>> /\ v[Len(v)] = 10

\* the line pre-pass is over (numbering on)
Numbering == self.linenos /\ pc \in {"render", "done"}

\* ------------------------------------------------------------------------
\* C1: with numbering on, start 1 and step 5, the slot of line n carries a
\* numeral exactly when (n - start) is divisible by step (lines 1, 6, 11,
\* ...) and blank padding otherwise; with step 1 every slot carries a
\* numeral.  The k-th slot is the slot of line start + k - 1.
\* ------------------------------------------------------------------------
C1_StepSkipping ==
    (self.linenos /\ self.linenostart = 1 /\ self.linenostep \in {1, 5}) =>
        \A k \in 1..Len(Slots) :
            LET n == self.linenostart + k - 1 IN
            IF (n - self.linenostart) % self.linenostep = 0
            THEN HasDigit(SlotField(Slots[k]))
            ELSE IsBlank(SlotField(Slots[k]))

\* ------------------------------------------------------------------------
\* C2: with numbering on, the number of slots the render loop has written
\* when the document is complete equals num_of_lines of the pre-pass.
\* ------------------------------------------------------------------------
C2_SlotsEqualLineCount ==
    (self.linenos /\ pc = "done") => Len(Slots) = num_of_lines

\* ------------------------------------------------------------------------
\* C3: every colour index written in the body (\cb, \cf, \chcfpat of styled
\* runs and the \cf1 of line number slots) is at least 1 and is the index of
\* an entry written in the colour table header.
\* ------------------------------------------------------------------------
RECURSIVE NumberAt(_, _, _)
\* the decimal number that starts at position i of text, after the digits of acc
NumberAt(text, i, acc) ==
    IF i <= Len(text) /\ text[i] \in 48..57
    THEN NumberAt(text, i + 1, 10 * acc + (text[i] - 48))
    ELSE acc

\* the numbers that follow the control word in text
NumbersAfter(text, word) ==
    { NumberAt(text, i + Len(word), 0) :
        i \in { j \in 1..(Len(text) - Len(word)) :
                  /\ SubSeq(text, j, j + Len(word) - 1) = word
                  /\ text[j + Len(word)] \in 48..57 } }

\* the colour indices a control-word write refers to
ColorRefs(text) ==
    NumbersAfter(text, CbWord) \cup NumbersAfter(text, CfWord)
    \cup NumbersAfter(text, <<92, 99, 104, 99, 102, 112, 97, 116>>)

C3_ColorTableComplete ==
    \A i \in 1..Len(outfile) :
        outfile[i].kind \in {"lineno", "start"} =>
            \A n \in ColorRefs(outfile[i].text) :
                n >= 1 /\ n <= Len(ColorEntries)

\* ------------------------------------------------------------------------
\* C6: every character written to the output has a code point below 128.
\* ------------------------------------------------------------------------
C6_AsciiOnly ==
    \A i \in 1..Len(outfile) :
        \A j \in 1..Len(outfile[i].text) : outfile[i].text[j] < 128

\* ------------------------------------------------------------------------
\* C7: with numbering on, all slots of a document have the same character
\* width, the digit count of num_of_lines, whether they carry a numeral or
\* padding.
\* ------------------------------------------------------------------------
C7_SlotWidthFixed ==
    Numbering =>
        /\ \A k \in 1..Len(Slots) :
               Len(SlotField(Slots[k])) = Len(Str(num_of_lines))
        /\ \A k, m \in 1..Len(Slots) : Len(Slots[k].text) = Len(Slots[m].text)

\* ------------------------------------------------------------------------
\* C9: the pre-pass never changes text: the texts of the materialized
\* tokens concatenate to the texts of the input tokens, and only a Doc token
\* with an embedded newline is replaced; every other token is copied.
\* ------------------------------------------------------------------------
IsSplitDoc(t) == t[1] = DocType /\ \E i \in 1..Len(t[2]) : t[2][i] = 10

C9_PrePassKeepsText ==
    Numbering =>
        /\ Join([i \in 1..Len(tokens) |-> tokens[i][2]])
               = Join([i \in 1..Len(tokensource) |-> tokensource[i][2]])
        /\ (\A i \in 1..Len(tokensource) : ~IsSplitDoc(tokensource[i]))
               => tokens = tokensource

\* ------------------------------------------------------------------------
\* C10: with numbering on, every line of the body begins with a number
\* slot: a paragraph break written into the body that is followed by
\* further token text is followed by a slot before that text.
\* ------------------------------------------------------------------------
\* the writes of escaped text, as positions of outfile
TextAt(i) == i \in 1..Len(outfile) /\ outfile[i].kind = "text"

\* text follows position j of write i, in that write or a later one
TextFollows(i, j) ==
    \/ j < Len(outfile[i].text)
    \/ \E m \in (i + 1)..Len(outfile) : TextAt(m) /\ outfile[m].text # <<>>

\* a slot is written after position j of write i and before any further text
SlotFollows(i, j) ==
    /\ j = Len(outfile[i].text)
    /\ \E m \in (i + 1)..Len(outfile) :
           /\ outfile[m].kind = "lineno"
           /\ \A q \in (i + 1)..(m - 1) :
                  ~(TextAt(q) /\ outfile[q].text # <<>>)

C10_EveryLineNumbered ==
    (self.linenos /\ pc = "done") =>
        \A i \in 1..Len(outfile) :
            TextAt(i) =>
                \A j \in 1..Len(outfile[i].text) :
                    (outfile[i].text[j] = 10 /\ TextFollows(i, j))
                        => SlotFollows(i, j)

\* ------------------------------------------------------------------------
\* C4: the colour table builder scans the styles in enumeration order and,
\* per style, foreground, background, border, skipping unset values; each
\* distinct colour gets the next index on its first sighting.  After the
\* scan the mapping is injective, its indices are exactly 1..n for the n
\* distinct colours, in order of first sighting, and the header lists
\* exactly n entries in index order.  The mapping is thereby a function of
\* the enumeration alone, so building it twice gives the same mapping.
\* ------------------------------------------------------------------------
\* the colour fields of the enumeration in scan order, unset ones included
FlatColors ==
    [j \in 1..(3 * Len(self.style)) |->
        LET st == self.style[((j - 1) \div 3) + 1][2] IN
        CASE (j - 1) % 3 = 0 -> st.color
          [] (j - 1) % 3 = 1 -> st.bgcolor
          [] OTHER -> st.border]

Sighted == {FlatColors[j] : j \in 1..Len(FlatColors)} \ {NoColor}

FirstSight(c) ==
    CHOOSE j \in 1..Len(FlatColors) :
        FlatColors[j] = c /\ \A i \in 1..(j - 1) : FlatColors[i] # c

C4_ColorTable ==
    pc \notin {"header", "colors"} =>
        /\ DOMAIN color_mapping = Sighted
        /\ \A c, d \in Sighted : c # d => color_mapping[c] # color_mapping[d]
        /\ {color_mapping[c] : c \in Sighted} = 1..Cardinality(Sighted)
        /\ \A c, d \in Sighted :
               FirstSight(c) < FirstSight(d)
                   => color_mapping[c] < color_mapping[d]
        /\ Len(ColorEntries) = Cardinality(Sighted)
        /\ \A c \in Sighted :
               ColorEntries[color_mapping[c]].text = ColorEntry(c)

\* a finished scan of three distinct colours, one of them sighted again and
\* one first sighted as a background
C4_Witness ==
    /\ pc = "done"
    /\ Cardinality(Sighted) = 3
    /\ \E j, k \in 1..Len(FlatColors) :
           j < k /\ FlatColors[j] # NoColor /\ FlatColors[j] = FlatColors[k]
    /\ \E c \in Sighted : (FirstSight(c) - 1) % 3 = 1

\* ------------------------------------------------------------------------
\* C5: _escape_text encodes each code point c of its input independently:
\* c < 128 as the character itself (after backslash-escaping of \, { and }),
\* 128 <= c < 65536 as one group {\u<c>}, c >= 65536 as two groups
\* {\uH}{\uL}, H = 0xD800 + ((c - 0x10000) div 1024) and
\* L = 0xDC00 + ((c - 0x10000) mod 1024).
\* ------------------------------------------------------------------------
UGroup(n) == <<123, 92, 117>> \o Str(n) \o <<125>>

CodePointEncoding(c) ==
    IF c < 128 THEN (IF c \in {92, 123, 125} THEN <<92, c>> ELSE <<c>>)
    ELSE IF c < 65536 THEN UGroup(c)
    ELSE UGroup(55296 + ((c - 65536) \div 1024))
         \o UGroup(56320 + ((c - 65536) % 1024))

\* the statement as made: every code point below 128 is emitted as itself
C5_AsStated ==
    \A k \in 1..Len(Texts) :
        LET v == Rendered[k][2] IN
        Texts[k].text = Join([i \in 1..Len(v) |-> CodePointEncoding(v[i])])

\* C5, amended: as above, except that a newline (c = 10) is emitted as the
\* control word \par followed by the newline.
C5_Amended ==
    \A k \in 1..Len(Texts) :
        LET v == Rendered[k][2] IN
        Texts[k].text =
            Join([i \in 1..Len(v) |->
                    IF v[i] = 10 THEN <<92, 112, 97, 114, 10>>
                    ELSE CodePointEncoding(v[i])])

\* a text with a newline, a character of the basic plane above ASCII and a
\* character beyond the basic plane has been escaped and written
C5_Witness ==
    /\ pc = "done"
    /\ \E k \in 1..Len(Texts) :
           LET v == Rendered[k][2] IN
           /\ \E i \in 1..Len(v) : v[i] = 10
           /\ \E i \in 1..Len(v) : v[i] >= 128 /\ v[i] < 65536
           /\ \E i \in 1..Len(v) : v[i] >= 65536

\* ------------------------------------------------------------------------
\* C8: the render loop is a two-state machine over the tokens.  It starts
\* owing a line number with the counter at linenostart; with numbering on,
\* a slot is written before token i exactly when i is the first token or
\* token i-1 ends with a newline; each token that ends with a newline adds
\* exactly 1 to the counter and makes a number owed again, no other token
\* changes the counter; with numbering off no slot is written and the
\* counter and the flag are never set.
\* ------------------------------------------------------------------------
\* the position in outfile of the escaped text of the j-th token
TextIndex(j) ==
    CHOOSE i \in 1..Len(outfile) :
        TextAt(i) /\ Cardinality({q \in 1..i : TextAt(q)}) = j

\* a slot is written between the texts of tokens j-1 and j
SlotBeforeToken(j) ==
    \E m \in ((IF j = 1 THEN 0 ELSE TextIndex(j - 1)) + 1)..(TextIndex(j) - 1) :
        outfile[m].kind = "lineno"

C8_RenderStateMachine ==
    pc \in {"render", "done"} =>
        IF self.linenos
        THEN /\ output_lineno = (pos = 0 \/ EndsNL(Rendered[pos][2]))
             /\ lineno = self.linenostart
                    + Cardinality({j \in 1..pos : EndsNL(Rendered[j][2])})
             /\ \A j \in 1..pos :
                    SlotBeforeToken(j) <=> (j = 1 \/ EndsNL(Rendered[j - 1][2]))
             /\ Len(Slots) = Cardinality({j \in 1..pos : SlotBeforeToken(j)})
        ELSE /\ Len(Slots) = 0
             /\ lineno = 0
             /\ output_lineno = FALSE

\* three tokens rendered with numbering on: a number was owed after some of
\* them and not after others
C8_Witness ==
    /\ pc = "done"
    /\ self.linenos
    /\ pos = 3
    /\ Len(Slots) = 2
    /\ lineno = self.linenostart + 1
    /\ ~output_lineno

====
